---------------------------- MODULE Spec2Model ----------------------------
(***************************************************************************)
(* Model of the IT-Dashboard transforms (AgingTable.py, ITDashboard.py).   *)
(*                                                                         *)
(* Text is modelled character by character: a text is a sequence of       *)
(* one-character strings, with the non-ASCII characters the code handles  *)
(* (en-dash, em-dash, non-breaking space) as named tokens.  Dates of the   *)
(* raw incident table are day numbers; periods are (year, month) records.  *)
(***************************************************************************)
EXTENDS Integers, Sequences, FiniteSets, TLC

(***************************************************************************)
(* Text                                                                    *)
(***************************************************************************)

\* A Python str as a sequence of characters.
Chars(s) == [i \in 1..Len(s) |-> SubSeq(s, i, i)]

EN_DASH   == "U+2013"
EM_DASH   == "U+2014"
NBSP      == "U+00A0"
TAB       == "U+0009"
CIRCLED_G == "U+24BC"
CIRCLED_g == "U+24D6"

UpperAlphabet == Chars("ABCDEFGHIJKLMNOPQRSTUVWXYZ") \o <<CIRCLED_G>>
LowerAlphabet == Chars("abcdefghijklmnopqrstuvwxyz") \o <<CIRCLED_g>>

\* str.lower() and str.upper(), one character at a time.
LowerChar(ch) ==
    IF \E i \in 1..Len(UpperAlphabet) : UpperAlphabet[i] = ch
    THEN LowerAlphabet[CHOOSE i \in 1..Len(UpperAlphabet) : UpperAlphabet[i] = ch]
    ELSE ch

UpperChar(ch) ==
    IF \E i \in 1..Len(LowerAlphabet) : LowerAlphabet[i] = ch
    THEN UpperAlphabet[CHOOSE i \in 1..Len(LowerAlphabet) : LowerAlphabet[i] = ch]
    ELSE ch

Lower(s) == [i \in 1..Len(s) |-> LowerChar(s[i])]
Upper(s) == [i \in 1..Len(s) |-> UpperChar(s[i])]

\* Python's `k in s` for strings: k occurs in s as a contiguous run.
Contains(s, k) ==
    \E i \in 0..(Len(s) - Len(k)) : SubSeq(s, i + 1, i + Len(k)) = k

\* The characters str.strip() removes (str.isspace()).
IsSpace(ch) == ch \in {" ", TAB, NBSP}

\* str.strip(): drop the leading and the trailing whitespace.
RECURSIVE LStrip(_)
LStrip(s) == IF s # <<>> /\ IsSpace(Head(s)) THEN LStrip(Tail(s)) ELSE s

RECURSIVE RStrip(_)
RStrip(s) ==
    IF s # <<>> /\ IsSpace(s[Len(s)]) THEN RStrip(SubSeq(s, 1, Len(s) - 1)) ELSE s

Strip(s) == RStrip(LStrip(s))

\* s.split(",")[0]: the text before the first comma (all of s without one).
RECURSIVE SplitFirst(_)
SplitFirst(s) ==
    IF s = <<>> \/ Head(s) = "," THEN <<>> ELSE <<Head(s)>> \o SplitFirst(Tail(s))

\* str.replace(old, new) for a single character old.
ReplaceChar(s, old, new) == [i \in 1..Len(s) |-> IF s[i] = old THEN new ELSE s[i]]

(***************************************************************************)
(* AgingTable.py: configuration                                            *)
(***************************************************************************)

OE_ORDER == <<"AZCH", "ID", "MY", "PH", "AIS", "SL", "TH", "TW", "AZAP">>

METRICS == << "Incidents Total Aging > 31 days",
              "Incidents Aging > 31-90 days",
              "Incidents Aging > 90 days" >>

RAW_TO_OE_MAP ==
    << <<Chars("Allianz China"), "AZCH">>,
       <<Chars("Allianz China - P&C"), "AZCH">>,
       <<Chars("Allianz Indonesia"), "ID">>,
       <<Chars("Allianz Malaysia"), "MY">>,
       <<Chars("Allianz Philippine"), "PH">>,
       <<Chars("Allianz Singapore"), "AIS">>,
       <<Chars("Allianz Sri Lanka"), "SL">>,
       <<Chars("Allianz Thailand"), "TH">>,
       <<Chars("Allianz Taiwan"), "TW">>,
       <<Chars("Allianz SE Singapore Branch OE"), "AZAP">> >>

\* The no-match value of normalize_oe (Python None).
None == "None"

\* A cell of the 'Affected OEs' column: a string, or empty (NaN).
StrCell(t) == [kind |-> "str", text |-> t]
NaNCell    == [kind |-> "nan", text |-> <<>>]

(***************************************************************************)
(* AgingTable.py: normalize_oe                                             *)
(***************************************************************************)

\* for key_substr, code in RAW_TO_OE_MAP: if key_substr.lower() in s: return code
RECURSIVE ScanOeMap(_, _)
ScanOeMap(s, i) ==
    IF i > Len(RAW_TO_OE_MAP) THEN None
    ELSE IF Contains(s, Lower(RAW_TO_OE_MAP[i][1])) THEN RAW_TO_OE_MAP[i][2]
    ELSE ScanOeMap(s, i + 1)

\* Mutant: the text is not lower-cased before the scan.
normalize_oe_CaseSensitive(raw_val) ==
    IF raw_val.kind = "nan" THEN None
    ELSE LET s == raw_val.text
         IN  ScanOeMap(IF Contains(s, <<",">>) THEN Strip(SplitFirst(s)) ELSE s, 1)

\* Mutant: an unmatched name falls into a default bucket instead of None.
normalize_oe_Default(raw_val) ==
    IF raw_val.kind = "nan" THEN None
    ELSE LET s == Lower(raw_val.text)
             r == ScanOeMap(IF Contains(s, <<",">>) THEN Strip(SplitFirst(s)) ELSE s, 1)
         IN  IF r = None THEN "AZAP" ELSE r

normalize_oe(raw_val) ==
    IF raw_val.kind = "nan" THEN None
    ELSE LET s == Lower(raw_val.text)
         IN  ScanOeMap(IF Contains(s, <<",">>) THEN Strip(SplitFirst(s)) ELSE s, 1)

(***************************************************************************)
(* State                                                                   *)
(***************************************************************************)

VARIABLES
    apc,          \* AgingTable run: "awaiting" (files uploaded) or "done"
    raw,          \* the raw incident table ('Page 1'), a sequence of rows
    last_date,    \* existing["Date"].iloc[-1] of the PowerBI file
    today,        \* datetime.today(), as a day number
    new_block,    \* the period block built by append_next_month_with_counts
    npc,          \* normalize_oe call: "call" or "returned"
    norm_arg,      \* its argument
    norm_base,     \* the text norm_arg was derived from by case and padding
    oe_code,      \* its result
    ppc,          \* parse_sheet call: "call", "returned" or "raised"
    p_ws,         \* its worksheet: cell position <<row, column>> -> cell
    p_wanted,     \* its wanted_headers
    p_out,        \* its header_map and its result rows
    cpc,          \* IT Cockpit run: "awaiting", "success" or "failed"
    kpi_in,       \* the uploaded KPI2 table, a sequence of rows
    wb_in,        \* the uploaded Raw Data workbook (its name in RawWorkbooks)
    c_out,        \* what the run showed and produced
    tpc,          \* Toxic run: "awaiting", "success" or "failed"
    t_manual,     \* the 'manual calculated' workbook: has it the sheet, its cells
    t_new,        \* the active sheet of the new data file: position -> cell
    t_out,        \* what the Toxic run showed and saved
    spc,          \* IT Stability run: "awaiting", "success" or "failed"
    s_sources,    \* the uploaded source files, a sequence
    s_target,     \* the uploaded target file
    s_out         \* what the IT Stability run showed and produced

varsAging   == <<apc, raw, last_date, today, new_block>>
varsNorm    == <<npc, norm_arg, norm_base, oe_code>>
varsParse   == <<ppc, p_ws, p_wanted, p_out>>
varsCockpit == <<cpc, kpi_in, wb_in, c_out>>
varsToxic   == <<tpc, t_manual, t_new, t_out>>
varsStability == <<spc, s_sources, s_target, s_out>>
vars        == <<varsAging, varsNorm, varsParse, varsCockpit, varsToxic, varsStability>>

(***************************************************************************)
(* AgingTable.py: compute_counts_from_raw                                  *)
(***************************************************************************)

\* A cell of the Created / Resolved columns: a date (day number), empty, or
\* a text that is no date.
DateCell(d) == [kind |-> "date", day |-> d]
EmptyCell   == [kind |-> "nan",  day |-> 0]
BadCell     == [kind |-> "text", day |-> 0]

NaT == [nat |-> TRUE, day |-> 0]

\* pd.to_datetime(column, errors="coerce"): what is no date becomes NaT.
to_datetime_coerce(cell) ==
    IF cell.kind = "date" THEN [nat |-> FALSE, day |-> cell.day] ELSE NaT

\* Mutant: open incidents are not given today's date as their end.
Days_NoFill(row, now) ==
    LET created  == to_datetime_coerce(row.Created)
        resolved == to_datetime_coerce(row.Resolved)
    IN  IF created.nat \/ resolved.nat THEN [nan |-> TRUE, days |-> 0]
        ELSE [nan |-> FALSE, days |-> resolved.day - created.day]

\* raw["Days"] = (raw[Resolved].fillna(datetime.today()) - raw[Created]).dt.days
Days(row, now) ==
    LET created  == to_datetime_coerce(row.Created)
        resolved == to_datetime_coerce(row.Resolved)
        end      == IF resolved.nat THEN now ELSE resolved.day
    IN  IF created.nat THEN [nan |-> TRUE, days |-> 0]
        ELSE [nan |-> FALSE, days |-> end - created.day]

\* Mutant: the total bucket starts after day 31, as its label reads.
InBucket_Gt31Strict(metric, d) ==
    CASE metric = METRICS[1] -> d > 31
      [] metric = METRICS[2] -> d >= 31 /\ d <= 90
      [] metric = METRICS[3] -> d > 90

\* Mutant: the last bucket starts at 60 days.
InBucket_HighFrom60(metric, d) ==
    CASE metric = METRICS[1] -> d > 30
      [] metric = METRICS[2] -> d >= 31 /\ d <= 90
      [] metric = METRICS[3] -> d >= 60

\* The three boolean masks over raw["Days"].
InBucket(metric, d) ==
    CASE metric = METRICS[1] -> d > 30
      [] metric = METRICS[2] -> d >= 31 /\ d <= 90
      [] metric = METRICS[3] -> d > 90

\* raw[RAW_OE_COL].apply(normalize_oe), over the cells a table can hold.
OeCellTexts ==
    { Chars("Allianz Malaysia"),
      Chars("Allianz Thailand, Allianz Malaysia"),
      Chars("Allianz Japan") }

OeCells == {StrCell(t) : t \in OeCellTexts} \cup {NaNCell}

ApplyNormalizeOe == [cell \in OeCells |-> normalize_oe(cell)]

\* The rows left after dropna(subset=["Days"]) and dropna(subset=["OE"]),
\* each with its Days and OE columns.
CleanRows(table, now) ==
    LET withCols == [i \in DOMAIN table |->
                        [Days |-> Days(table[i], now),
                         OE   |-> ApplyNormalizeOe[table[i].OE]]]
    IN  SelectSeq(withCols, LAMBDA r : ~r.Days.nan /\ r.OE # None)

\* raw[mask].groupby("OE").size(): one (OE, Value) row per OE present.
GroupSize(rows, metric) ==
    LET hit == {i \in DOMAIN rows : InBucket(metric, rows[i].Days.days)}
    IN  { [OE |-> oe, Metric |-> metric,
           Value |-> Cardinality({i \in hit : rows[i].OE = oe})] :
          oe \in {rows[i].OE : i \in hit} }

\* counts = pd.concat([gt31, in_31_90, gt90]): the (OE, Metric, Value) rows.
compute_counts_from_raw(table, now) ==
    LET rows == CleanRows(table, now)
    IN  UNION {GroupSize(rows, METRICS[m]) : m \in DOMAIN METRICS}

(***************************************************************************)
(* AgingTable.py: append_next_month_with_counts                            *)
(***************************************************************************)

MonthsPerYear == 12

\* last_date + relativedelta(months=1)
NextMonth(d) ==
    IF d.month = MonthsPerYear THEN [year |-> d.year + 1, month |-> 1]
    ELSE [year |-> d.year, month |-> d.month + 1]

\* key_to_val.get((oe, metric), 0)
KeyToVal(counts, oe, metric) ==
    IF \E c \in counts : c.OE = oe /\ c.Metric = metric
    THEN (CHOOSE c \in counts : c.OE = oe /\ c.Metric = metric).Value
    ELSE 0

\* Mutant: only the (OE, metric) pairs that have a count get a row.
NewBlock_NoZeroFill(counts, next_month) ==
    LET full == [k \in 1..(Len(METRICS) * Len(OE_ORDER)) |->
                    LET metric == METRICS[((k - 1) \div Len(OE_ORDER)) + 1]
                        oe     == OE_ORDER[((k - 1) % Len(OE_ORDER)) + 1]
                    IN  [OE |-> oe, Metric |-> metric, Date |-> next_month,
                         Value |-> KeyToVal(counts, oe, metric)]]
    IN  SelectSeq(full, LAMBDA r : r.Value # 0)

\* for metric in METRICS: for oe in OE_ORDER: rows.append({...})
NewBlock(counts, next_month) ==
    [k \in 1..(Len(METRICS) * Len(OE_ORDER)) |->
        LET metric == METRICS[((k - 1) \div Len(OE_ORDER)) + 1]
            oe     == OE_ORDER[((k - 1) % Len(OE_ORDER)) + 1]
        IN  [OE |-> oe, Metric |-> metric, Date |-> next_month,
             Value |-> KeyToVal(counts, oe, metric)]]

append_next_month_with_counts(last, table, now) ==
    NewBlock(compute_counts_from_raw(table, now), NextMonth(last))

(***************************************************************************)
(* AgingTable.main: the inputs and the run                                 *)
(***************************************************************************)

MaxRows == 4

Now == 100

MY_TEXT == StrCell(Chars("Allianz Malaysia"))
TH_TEXT == StrCell(Chars("Allianz Thailand, Allianz Malaysia"))
JP_TEXT == StrCell(Chars("Allianz Japan"))

RawRow(c, r, oe) == [Created |-> c, Resolved |-> r, OE |-> oe]

\* The rows a raw table is drawn from: open and resolved incidents of two
\* OEs on both sides of the bucket edges, an OE that is in no map entry, and
\* Created / Resolved cells that hold no date.
RawRows ==
    { RawRow(DateCell(Now - 10), EmptyCell, MY_TEXT),
      RawRow(DateCell(Now - 35), EmptyCell, MY_TEXT),
      RawRow(DateCell(Now - 65), DateCell(Now - 5), MY_TEXT),
      RawRow(DateCell(Now - 95), EmptyCell, MY_TEXT),
      RawRow(DateCell(Now - 31), EmptyCell, TH_TEXT),
      RawRow(DateCell(Now - 95), EmptyCell, JP_TEXT),
      RawRow(BadCell, EmptyCell, MY_TEXT),
      RawRow(DateCell(Now - 95), BadCell, MY_TEXT) }

RawTables == UNION {[1..n -> RawRows] : n \in 0..MaxRows}

LastDates == { [year |-> 2024, month |-> 12], [year |-> 2025, month |-> 1] }

InitAging ==
    /\ apc = "awaiting"
    /\ raw \in RawTables
    /\ last_date \in LastDates
    /\ today = Now
    /\ new_block = <<>>

IdleAging ==
    /\ apc = "idle"
    /\ raw = <<>>
    /\ last_date = [year |-> 2025, month |-> 1]
    /\ today = Now
    /\ new_block = <<>>

\* if powerbi_file and raw_file: append_next_month_with_counts(...)
AgingRun ==
    /\ apc = "awaiting"
    /\ new_block' = append_next_month_with_counts(last_date, raw, today)
    /\ apc' = "done"
    /\ UNCHANGED <<raw, last_date, today, varsNorm, varsParse, varsCockpit, varsToxic,
                    varsStability>>

(***************************************************************************)
(* normalize_oe as a call                                                  *)
(***************************************************************************)

\* The texts a call is derived from: names of one entity, comma lists, names
\* of two entities without a comma, a name no entry matches, a comma inside
\* a name, the empty text and an empty (NaN) cell.
NormBases ==
    { StrCell(Chars("Allianz Malaysia")),
      StrCell(Chars("Allianz China - P&C")),
      StrCell(Chars("Allianz Thailand, Allianz Malaysia")),
      StrCell(Chars("Allianz Japan, Allianz Malaysia")),
      StrCell(Chars("Allianz Japan")),
      StrCell(Chars("Allianz SE Singapore Branch OE")),
      StrCell(Chars("PT Asuransi Allianz Indonesia Tbk")),
      StrCell(Chars("Allianz Sri Lanka & Allianz Singapore")),
      StrCell(Chars("Allianz Mal,aysia")),
      StrCell(Chars(",Allianz Taiwan")),
      StrCell(<<>>),
      NaNCell }

Pads == { <<>>, <<" ">>, <<TAB, NBSP>> }

Cases == {"same", "upper", "lower"}

Recase(t, how) ==
    CASE how = "same"  -> t
      [] how = "upper" -> Upper(t)
      [] how = "lower" -> Lower(t)

\* The same text in another letter case, with whitespace before and after.
Variant(cell, lead, how, trail) ==
    IF cell.kind = "nan" THEN cell
    ELSE StrCell(lead \o Recase(cell.text, how) \o trail)

InitNorm ==
    /\ npc = "call"
    /\ norm_base \in NormBases
    /\ \E lead \in Pads, trail \in Pads, how \in Cases :
           norm_arg = Variant(norm_base, lead, how, trail)
    /\ oe_code = None

IdleNorm ==
    /\ npc = "idle"
    /\ norm_arg = NaNCell
    /\ norm_base = NaNCell
    /\ oe_code = None

NormalizeCall ==
    /\ npc = "call"
    /\ oe_code' = normalize_oe(norm_arg)
    /\ npc' = "returned"
    /\ UNCHANGED <<norm_arg, norm_base, varsAging, varsParse, varsCockpit, varsToxic,
                    varsStability>>

(***************************************************************************)
(* ITDashboard.py: clean_oe_name and the rating pattern                    *)
(***************************************************************************)

\* re.sub(r"\s+", " ", s): every run of whitespace becomes one space.
RECURSIVE CollapseSpaces(_)
CollapseSpaces(s) ==
    IF s = <<>> THEN <<>>
    ELSE IF IsSpace(Head(s)) THEN <<" ">> \o CollapseSpaces(LStrip(s))
    ELSE <<Head(s)>> \o CollapseSpaces(Tail(s))

clean_oe_name(name) ==
    IF name.kind # "str" THEN <<>>
    ELSE LET s1 == ReplaceChar(name.text, NBSP, " ")
             s2 == ReplaceChar(ReplaceChar(s1, EN_DASH, "-"), EM_DASH, "-")
         IN  Strip(CollapseSpaces(s2))

RatingWords ==
    << Chars("Very Bad"), Chars("Bad"), Chars("Medium"), Chars("Good"),
       Chars("Very Good") >>

Digits == {"0", "1", "2", "3", "4", "5", "6", "7", "8", "9"}

\* The first position from j on whose character is not in set (Len + 1 at
\* the end of the text).
RECURSIVE SkipWhile(_, _, _)
SkipWhile(t, j, set) ==
    IF j <= Len(t) /\ t[j] \in set THEN SkipWhile(t, j + 1, set) ELSE j

CharAt(t, j) == IF j \in 1..Len(t) THEN t[j] ELSE ""

\* \s*\(([-+]?\d+(\.\d+)?)\) matched from position j.
RatingTailAt(t, j) ==
    LET open   == SkipWhile(t, j, {" ", TAB, NBSP})
        num    == IF CharAt(t, open + 1) \in {"-", "+"} THEN open + 2 ELSE open + 1
        intEnd == SkipWhile(t, num, Digits)
        frac   == SkipWhile(t, intEnd + 1, Digits)
    IN  /\ CharAt(t, open) = "("
        /\ intEnd > num
        /\ \/ CharAt(t, intEnd) = ")"
           \/ /\ CharAt(t, intEnd) = "."
              /\ frac > intEnd + 1
              /\ CharAt(t, frac) = ")"

\* rating_re.search(val)
rating_re_search(t) ==
    \E i \in 1..Len(t) : \E w \in DOMAIN RatingWords :
        /\ i + Len(RatingWords[w]) - 1 <= Len(t)
        /\ SubSeq(t, i, i + Len(RatingWords[w]) - 1) = RatingWords[w]
        /\ RatingTailAt(t, i + Len(RatingWords[w]))

(***************************************************************************)
(* ITDashboard.py: parse_sheet                                             *)
(***************************************************************************)

HeaderRowStop == 30
HeaderColStop == 25
DataRowStart  == 20
DataRowStop   == 100
OeColumn      == 5

NumCell(t) == [kind |-> "num", text |-> t]
NoCell     == [kind |-> "none", text |-> <<>>]

\* ws.cell(row=r, column=c).value
CellValue(sheet, r, c) ==
    IF <<r, c>> \in DOMAIN sheet THEN sheet[<<r, c>>] ELSE NoCell

\* Mutant: the first header found for a column is kept.
DictPut_KeepFirst(hm, c, hdr) ==
    IF \E k \in DOMAIN hm : hm[k][1] = c THEN hm ELSE Append(hm, <<c, hdr>>)

\* header_map[c] = hdr on a dict kept as its items in insertion order.
DictPut(hm, c, hdr) ==
    IF \E k \in DOMAIN hm : hm[k][1] = c
    THEN [k \in DOMAIN hm |-> IF hm[k][1] = c THEN <<c, hdr>> ELSE hm[k]]
    ELSE Append(hm, <<c, hdr>>)

\* vv = v.strip().replace(en-dash, "-")
HeaderText(v) == ReplaceChar(Strip(v), EN_DASH, "-")

\* for hdr in wanted_headers: if hdr.lower() in vv.lower(): header_map[c] = hdr
\* (In the three loops, the test on Len(hm) is never true: it has hm computed
\* before the next step is taken.)
RECURSIVE ScanWanted(_, _, _, _, _)
ScanWanted(hm, c, vv, wanted, i) ==
    IF i > Len(wanted) \/ Len(hm) < 0 THEN hm
    ELSE ScanWanted(IF Contains(Lower(vv), Lower(wanted[i]))
                    THEN DictPut(hm, c, wanted[i]) ELSE hm,
                    c, vv, wanted, i + 1)

\* for c in range(1, 25): v = ws.cell(r, c).value; if isinstance(v, str): ...
RECURSIVE ScanCols(_, _, _, _, _)
ScanCols(hm, sheet, wanted, r, c) ==
    IF c >= HeaderColStop \/ Len(hm) < 0 THEN hm
    ELSE ScanCols(IF CellValue(sheet, r, c).kind = "str"
                  THEN ScanWanted(hm, c, HeaderText(CellValue(sheet, r, c).text),
                                  wanted, 1)
                  ELSE hm,
                  sheet, wanted, r, c + 1)

\* for r in range(1, 30): ...
RECURSIVE ScanRows(_, _, _, _)
ScanRows(hm, sheet, wanted, r) ==
    IF r >= HeaderRowStop \/ Len(hm) < 0 THEN hm
    ELSE ScanRows(ScanCols(hm, sheet, wanted, r, 1), sheet, wanted, r + 1)

\* for c, hdr in header_map.items(): the row's dict and its found flag.
RECURSIVE RowData(_, _, _, _, _)
RowData(sheet, r, hm, k, acc) ==
    IF k > Len(hm) THEN acc
    ELSE LET c   == hm[k][1]
             hdr == hm[k][2]
             val == CellValue(sheet, r, c)
             hit == val.kind = "str" /\ rating_re_search(val.text)
             old == acc.data
             new == IF hit
                    THEN [h \in DOMAIN old \cup {hdr} |->
                             IF h = hdr THEN Strip(val.text) ELSE old[h]]
                    ELSE [h \in DOMAIN old \cup {hdr} |->
                             IF h \in DOMAIN old THEN old[h] ELSE <<>>]
         IN  RowData(sheet, r, hm, k + 1,
                     [data |-> new, found |-> acc.found \/ hit])

\* The row r of the data region: its OE cell, its cleaned OE name, and its
\* dict with the found flag.
DataRow(sheet, hm, r) ==
    [isStr |-> CellValue(sheet, r, OeColumn).kind = "str",
     OE    |-> clean_oe_name(CellValue(sheet, r, OeColumn)),
     row   |-> RowData(sheet, r, hm, 1, [data |-> <<>>, found |-> FALSE])]

\* if not isinstance(oe_name, str): continue; if not oe_name_clean: continue;
\* if found: results.append(row_data)
IsKept(d) == d.isStr /\ d.OE # <<>> /\ d.row.found

ResultRow(d) == [OE |-> d.OE, data |-> d.row.data]

\* The k-th row number of a set of row numbers.
NthRow(kept, k) == CHOOSE r \in kept : Cardinality({q \in kept : q < r}) = k - 1

ResultRows(sheet, hm, kept) ==
    [k \in 1..Cardinality(kept) |-> ResultRow(DataRow(sheet, hm, NthRow(kept, k)))]

\* for r in range(20, 100): the rows that hold an OE name and a rating, in
\* row order.
ExtractRows(sheet, hm) ==
    ResultRows(sheet, hm,
               {r \in DataRowStart..(DataRowStop - 1) : IsKept(DataRow(sheet, hm, r))})

\* Mutant: a sheet without headers gives an empty result instead of an error.
ParseResult_NoRaise(sheet, hm) ==
    [raised |-> FALSE, header_map |-> hm, results |-> ExtractRows(sheet, hm)]

\* if not header_map: raise ValueError(...); else the rows as a DataFrame.
ParseResult(sheet, hm) ==
    IF hm = <<>>
    THEN [raised |-> TRUE, header_map |-> hm, results |-> <<>>]
    ELSE [raised |-> FALSE, header_map |-> hm, results |-> ExtractRows(sheet, hm)]

parse_sheet(sheet, wanted) ==
    ParseResult(sheet, ScanRows(<<>>, sheet, wanted, 1))

(***************************************************************************)
(* parse_sheet as a call                                                   *)
(***************************************************************************)

\* Two of the header lists of sheet_kpi_map.
ArchitectureKpis ==
    << Chars("Architecture Data Quality Score"), Chars("Cloudification"),
       Chars("Information Domain - Initialization"),
       Chars("Information Domain - Documentation"), Chars("Legacy Index") >>

GovernanceKpis ==
    << Chars("IT Compliance Score"), Chars("Unmanaged Risks: ITOM"),
       Chars("Unmanaged Risks: ITOM+ISMS+BA"), Chars("Completed risk scoping BAs"),
       Chars("Completed risk scoping BAs: regular"),
       Chars("Completed risk scoping BAs: EUCs") >>

MaxCells == 2

\* Cells in and just outside the scanned region (rows 1..29, columns 1..24).
HeaderPositions ==
    { <<1, 1>>, <<29, 1>>, <<30, 1>>, <<29, 24>>, <<1, 25>> }

\* What a header cell of an Architecture sheet may hold: a header written
\* with an en-dash, with an em-dash, with a non-breaking space, a padded
\* header followed by a unit, and a label that is no KPI.
ArchitectureCells ==
    { StrCell(Chars("Information Domain ") \o <<EN_DASH>> \o Chars(" Initialization")),
      StrCell(Chars("Information Domain ") \o <<EM_DASH>> \o Chars(" Documentation")),
      StrCell(Chars("Legacy") \o <<NBSP>> \o Chars("Index")),
      StrCell(Chars(" Cloudification (%) ")),
      StrCell(Chars("Rating")) }

\* What a header cell of a Governance sheet may hold: headers that contain
\* a shorter wanted header, in two letter cases, a header of its own, a
\* label that is no KPI and a number.
GovernanceCells ==
    { StrCell(Chars("Unmanaged Risks: ITOM+ISMS+BA")),
      StrCell(Chars("completed risk scoping bas: eucs")),
      StrCell(Chars("IT Compliance Score")),
      StrCell(Chars("Rating")),
      NumCell(Chars("2024")) }

\* The data rows below the headers: OE names in column E, ratings and other
\* values in the columns the headers may stand in.
DataRows ==
    (<<40, 5>>  :> StrCell(Chars("Allianz Malaysia"))) @@
    (<<40, 1>>  :> StrCell(Chars("Good (99.9)"))) @@
    (<<40, 24>> :> StrCell(Chars("n/a"))) @@
    (<<41, 5>>  :> StrCell(Chars("Allianz") \o <<NBSP>> \o Chars("Taiwan ")
                             \o <<EN_DASH>> \o Chars("  Life "))) @@
    (<<41, 24>> :> StrCell(Chars(" Very Bad(-3)"))) @@
    (<<41, 25>> :> StrCell(Chars("Good (1)"))) @@
    (<<42, 5>>  :> NumCell(Chars("7"))) @@
    (<<42, 1>>  :> StrCell(Chars("Good (5)"))) @@
    (<<43, 5>>  :> StrCell(<<" ", NBSP>>)) @@
    (<<43, 1>>  :> StrCell(Chars("Medium (50.)")))

\* The worksheets with at most MaxCells header cells drawn from cells.
SheetsOver(cells) ==
    { hdrs @@ DataRows :
        hdrs \in UNION { [P -> cells] :
                           P \in {Q \in SUBSET HeaderPositions :
                                     Cardinality(Q) <= MaxCells} } }

InitParse ==
    /\ ppc = "call"
    /\ \/ p_wanted = ArchitectureKpis /\ p_ws \in SheetsOver(ArchitectureCells)
       \/ p_wanted = GovernanceKpis /\ p_ws \in SheetsOver(GovernanceCells)
    /\ p_out = [raised |-> FALSE, header_map |-> <<>>, results |-> <<>>]

IdleParse ==
    /\ ppc = "idle"
    /\ p_ws = <<>>
    /\ p_wanted = <<>>
    /\ p_out = [raised |-> FALSE, header_map |-> <<>>, results |-> <<>>]

ParseCall ==
    /\ ppc = "call"
    /\ p_out' = parse_sheet(p_ws, p_wanted)
    /\ ppc' = IF p_out'.raised THEN "raised" ELSE "returned"
    /\ UNCHANGED <<p_ws, p_wanted, varsAging, varsNorm, varsCockpit, varsToxic,
                    varsStability>>

(***************************************************************************)
(* ITDashboard.main: configuration                                         *)
(***************************************************************************)

StrategyKpis ==
    << Chars("Group IT Strategy Alignment Score"), Chars("IT Steering Board Score") >>

ServiceKpis ==
    << Chars("Group Toxicity"), Chars("Local Toxicity"), Chars("Overall Toxicity"),
       Chars("IT Asset Lifecycle Management Score") >>

sheet_kpi_map ==
    << [sheet |-> "IT Strategy & Project Port(H06)", kpis |-> StrategyKpis],
       [sheet |-> "Architecture & Demand(H06)",      kpis |-> ArchitectureKpis],
       [sheet |-> "IT Service Agreements & Su(H06)", kpis |-> ServiceKpis],
       [sheet |-> "IT Governance, Risk & Comp(H06)", kpis |-> GovernanceKpis] >>

custom_order ==
    << Chars("Allianz China - Holding"),
       Chars("Allianz Indonesia"),
       Chars("Allianz Philippine - L&H"),
       Chars("Allianz Singapore") \o <<CIRCLED_G>>,
       Chars("Allianz Sri Lanka"),
       Chars("Allianz Taiwan - Life"),
       Chars("Allianz Thailand"),
       Chars("Allianz Australia - P&C") \o <<CIRCLED_G>>,
       Chars("Allianz Malaysia") >>

(***************************************************************************)
(* ITDashboard.main: dates                                                 *)
(***************************************************************************)

\* A cell of the Date column of KPI2: a native date, a text written as
\* '%b-%y' (such as Jan-25), or empty.
TsDate(y, m, d) == [kind |-> "ts",   year |-> y, month |-> m, day |-> d]
TextDate(y, m)  == [kind |-> "text", year |-> y, month |-> m, day |-> 0]
BlankDate       == [kind |-> "nan",  year |-> 0, month |-> 0, day |-> 0]

\* kpi_df["Date"].dropna().iloc[-1]: the index of the last row with a Date,
\* 0 when there is none (iloc[-1] then raises IndexError).
LastDatedRow(kpi) ==
    LET dated == {i \in DOMAIN kpi : kpi[i].Date.kind # "nan"}
    IN  IF dated = {} THEN 0 ELSE CHOOSE i \in dated : \A j \in dated : j <= i

\* datetime.strptime(s, "%b-%y") for a text, pd.to_datetime for a date.
LastDate(cell) ==
    IF cell.kind = "text" THEN TsDate(cell.year, cell.month, 1) ELSE cell

\* last_date + relativedelta(months=1), for days every month has.
AddMonth(d) ==
    IF d.month = MonthsPerYear THEN TsDate(d.year + 1, 1, d.day)
    ELSE TsDate(d.year, d.month + 1, d.day)

DaysPerMonthMax == 31

\* The key of the sort for a Date cell: a Timestamp is kept;
\* pd.to_datetime(x, errors="coerce") makes NaT of an empty cell and of a
\* '%b-%y' text, which is parsed as month and day-of-month without a year
\* (Jan-25 as the 25th of January of year 1) and so is no valid Timestamp.
DateSortKey(cell) ==
    IF cell.kind = "ts"
    THEN [nat |-> FALSE,
          ord |-> (MonthsPerYear * cell.year + cell.month) * DaysPerMonthMax + cell.day]
    ELSE [nat |-> TRUE, ord |-> 0]

(***************************************************************************)
(* ITDashboard.main: parse and merge the four sheets                       *)
(***************************************************************************)

\* Characters in code point order, for the comparison of strings.
CodePoints ==
    <<TAB>> \o Chars(" &()+,-.0123456789:ABCDEFGHIJKLMNOPQRSTUVWXYZ")
        \o Chars("abcdefghijklmnopqrstuvwxyz")
        \o <<NBSP, EN_DASH, EM_DASH, CIRCLED_G, CIRCLED_g>>

CodePoint(ch) == CHOOSE i \in DOMAIN CodePoints : CodePoints[i] = ch

\* a < b for Python strings.
LexLess(a, b) ==
    \E i \in 1..Len(b) :
        /\ \A j \in 1..(i - 1) : j <= Len(a) /\ a[j] = b[j]
        /\ \/ i = Len(a) + 1
           \/ i <= Len(a) /\ CodePoint(a[i]) < CodePoint(b[i])

\* A set of strings as the sequence in ascending order.
SortedNames(names) ==
    [k \in 1..Cardinality(names) |->
        CHOOSE x \in names : Cardinality({y \in names : LexLess(y, x)}) = k - 1]

NaNText == <<"NaN">>

\* The row of a frame for an OE, and the columns of a frame.
FrameRow(frame, oe) == frame[CHOOSE i \in DOMAIN frame : frame[i].OE = oe]
FrameCols(frame) == DOMAIN frame[1].data

\* pd.merge(left, right, on="OE", how="outer") for frames with one row per
\* OE: the union of the keys in lexicographic order, blanks for the side
\* that lacks the OE.
MergeOuter(left, right) ==
    LET keysL == {left[i].OE : i \in DOMAIN left}
        keysR == {right[i].OE : i \in DOMAIN right}
        keys  == SortedNames(keysL \cup keysR)
        side(frame, present, oe) ==
            [h \in FrameCols(frame) |->
                IF present THEN FrameRow(frame, oe).data[h] ELSE NaNText]
    IN  [k \in DOMAIN keys |->
            [OE   |-> keys[k],
             data |-> side(left, keys[k] \in keysL, keys[k])
                          @@ side(right, keys[k] \in keysR, keys[k])]]

\* Step 4 from sheet k on, frames[k] being what parse_sheet gives for sheet
\* k: parse_sheet may have raised ValueError; pd.merge raises KeyError 'OE'
\* when a frame has no rows (and so no OE column).
RECURSIVE MergeFrames(_, _, _)
MergeFrames(frames, merged, k) ==
    IF k > Len(frames) THEN [error |-> "", sheet |-> 0, merged |-> merged]
    ELSE IF frames[k].raised
    THEN [error |-> "ValueError: Could not find KPI headers in sheet",
          sheet |-> k, merged |-> <<>>]
    ELSE IF k = 1
    THEN MergeFrames(frames, frames[k].results, k + 1)
    ELSE IF merged = <<>> \/ frames[k].results = <<>>
    THEN [error |-> "KeyError: 'OE'", sheet |-> k, merged |-> <<>>]
    ELSE MergeFrames(frames, MergeOuter(merged, frames[k].results), k + 1)

\* for sheet, kpis in sheet_kpi_map.items(): temp_df = parse_sheet(...); merge
ParseAndMerge(wb) ==
    MergeFrames([k \in DOMAIN sheet_kpi_map |-> parse_sheet(wb[k], sheet_kpi_map[k].kpis)],
                <<>>, 1)

(***************************************************************************)
(* ITDashboard.main: the inputs                                            *)
(***************************************************************************)

\* A sheet with one header cell and one rated row per OE name.
KpiSheet(hdr, oes) ==
    [p \in {<<10, 7>>} \cup {<<19 + k, c>> : k \in DOMAIN oes, c \in {5, 7}} |->
        IF p = <<10, 7>> THEN StrCell(hdr)
        ELSE IF p[2] = 5 THEN StrCell(oes[p[1] - 19])
        ELSE StrCell(Chars("Good (90.5)"))]

\* A sheet whose cells hold no wanted header.
NoHeaderSheet(oes) == KpiSheet(Chars("Rating"), oes)

\* A sheet with a header and OE names but no rating.
NoRatingSheet(hdr, oes) ==
    [p \in DOMAIN KpiSheet(hdr, oes) |->
        IF p[2] = 7 /\ p[1] >= 20 THEN StrCell(Chars("n/a")) ELSE KpiSheet(hdr, oes)[p]]

MY_NAME == Chars("Allianz Malaysia")
ID_NAME == Chars("Allianz Indonesia")
JP_NAME == Chars("Allianz Japan")
TW_NAME == Chars("Allianz") \o <<NBSP>> \o Chars("Taiwan ") \o <<EN_DASH>> \o Chars(" Life")

\* The Raw Data workbooks: a complete one, one with a sheet without headers
\* at the start and one in the middle, and one with a sheet without ratings.
RawWorkbooks ==
    [ complete |->
        << KpiSheet(StrategyKpis[1], <<MY_NAME, ID_NAME>>),
           KpiSheet(ArchitectureKpis[5], <<MY_NAME, ID_NAME>>),
           KpiSheet(ServiceKpis[3], <<MY_NAME, JP_NAME>>),
           KpiSheet(GovernanceKpis[1], <<TW_NAME, ID_NAME>>) >>,
      no_header_1 |->
        << NoHeaderSheet(<<MY_NAME, ID_NAME>>),
           KpiSheet(ArchitectureKpis[5], <<MY_NAME, ID_NAME>>),
           KpiSheet(ServiceKpis[3], <<MY_NAME, ID_NAME>>),
           KpiSheet(GovernanceKpis[1], <<MY_NAME, ID_NAME>>) >>,
      no_header_3 |->
        << KpiSheet(StrategyKpis[1], <<MY_NAME, ID_NAME>>),
           KpiSheet(ArchitectureKpis[5], <<MY_NAME, ID_NAME>>),
           NoHeaderSheet(<<MY_NAME, ID_NAME>>),
           KpiSheet(GovernanceKpis[1], <<MY_NAME, ID_NAME>>) >>,
      no_rating_2 |->
        << KpiSheet(StrategyKpis[1], <<MY_NAME, ID_NAME>>),
           NoRatingSheet(ArchitectureKpis[5], <<MY_NAME, ID_NAME>>),
           KpiSheet(ServiceKpis[3], <<MY_NAME, ID_NAME>>),
           KpiSheet(GovernanceKpis[1], <<MY_NAME, ID_NAME>>) >> ]

\* Step 4 for every workbook.
ParsedWorkbooks ==
    [w \in DOMAIN RawWorkbooks |-> ParseAndMerge(RawWorkbooks[w])]

MaxKpiRows == 2

KpiDates ==
    { TsDate(2024, 12, 1), TsDate(2025, 1, 1), TsDate(2025, 1, 15),
      TextDate(2025, 1), BlankDate }

KpiOEs == { MY_NAME, ID_NAME, JP_NAME, TW_NAME }

\* The CIM ID of a KPI2 row, by its OE.
CimOf(oe) ==
    CASE oe = MY_NAME -> "CIM-MY"
      [] oe = ID_NAME -> "CIM-ID"
      [] oe = JP_NAME -> "CIM-JP"
      [] oe = TW_NAME -> "CIM-TW"

KpiRows == {[Date |-> d, CIM |-> CimOf(oe), OE |-> StrCell(oe)] : d \in KpiDates, oe \in KpiOEs}

KpiTables == UNION {[1..n -> KpiRows] : n \in 0..MaxKpiRows}

(***************************************************************************)
(* ITDashboard.main: the run                                               *)
(***************************************************************************)

\* kpi_df["OE_clean"] and kpi_df["OE_clean_nog"] of a KPI2 row.
OE_clean(row) == clean_oe_name(row.OE)
OE_clean_nog(row) == Strip(SelectSeq(OE_clean(row), LAMBDA ch : ch # CIRCLED_G))

\* Step 5: the CIM ID of the first KPI2 row with this OE, letter case
\* ignored; failing that, of the first one equal without the circled G; "".
CimLookup(kpi, oe_clean) ==
    LET exact == {i \in DOMAIN kpi : Lower(OE_clean(kpi[i])) = Lower(oe_clean)}
        nog   == {i \in DOMAIN kpi :
                    Lower(OE_clean_nog(kpi[i]))
                        = Strip(SelectSeq(Lower(oe_clean), LAMBDA ch : ch # CIRCLED_G))}
        first(set) == CHOOSE i \in set : \A j \in set : i <= j
    IN  IF exact # {} THEN kpi[first(exact)].CIM
        ELSE IF nog # {} THEN kpi[first(nog)].CIM
        ELSE ""

\* Step 5: one row per row of merged_df.
AppendRows(kpi, merged, month_label) ==
    [k \in DOMAIN merged |->
        LET oe_clean == clean_oe_name(StrCell(merged[k].OE))
        IN  [Date |-> month_label, CIM |-> CimLookup(kpi, oe_clean),
             OE |-> StrCell(oe_clean), data |-> merged[k].data]]

\* Steps 6 and 7 on the OE column: clean_oe_name of every label, then
\* pd.Categorical(..., categories=custom_order): a label that is no category
\* becomes NaN, with code -1.
CatCode(name) ==
    IF \E i \in DOMAIN custom_order : custom_order[i] = name
    THEN (CHOOSE i \in DOMAIN custom_order : custom_order[i] = name) - 1
    ELSE -1

Categorical(name) == IF CatCode(name) = -1 THEN NaNCell ELSE StrCell(name)

\* updated.sort_values(["Date", "OE"], key=...): row a (at index i) comes
\* before row b (at index j): by the Date key, NaT last, then by the OE
\* code, then in the order of the rows as they stood.
SortBefore(a, i, b, j) ==
    LET ka == DateSortKey(a.Date)
        kb == DateSortKey(b.Date)
    IN  \/ ~ka.nat /\ kb.nat
        \/ ~ka.nat /\ ~kb.nat /\ ka.ord < kb.ord
        \/ /\ (ka.nat /\ kb.nat) \/ (~ka.nat /\ ~kb.nat /\ ka.ord = kb.ord)
           /\ \/ CatCode(a.OE) < CatCode(b.OE)
              \/ CatCode(a.OE) = CatCode(b.OE) /\ i < j

\* Step 6: pd.concat of the KPI2 rows and the new rows, then
\* updated["OE"].astype(str).apply(clean_oe_name).
ConcatAndClean(kpi, append_rows) ==
    LET both == [i \in DOMAIN kpi |->
                    [Date |-> kpi[i].Date, CIM |-> kpi[i].CIM, OE |-> kpi[i].OE,
                     data |-> <<>>]] \o append_rows
    IN  [i \in DOMAIN both |->
            [Date |-> both[i].Date, CIM |-> both[i].CIM,
             OE |-> clean_oe_name(both[i].OE), data |-> both[i].data]] \o <<>>

\* Step 7: the OE column made categorical and the rows sorted.
SortRows(cleaned) ==
    LET pos(i) == Cardinality({j \in DOMAIN cleaned :
                                  j # i /\ SortBefore(cleaned[j], j, cleaned[i], i)}) + 1
    IN  [k \in DOMAIN cleaned |->
            LET r == cleaned[CHOOSE i \in DOMAIN cleaned : pos(i) = k]
            IN  [Date |-> r.Date, CIM |-> r.CIM, OE |-> Categorical(r.OE),
                 data |-> r.data]]

\* Steps 6 and 7.
AppendAndSort(kpi, append_rows) == SortRows(ConcatAndClean(kpi, append_rows))

ErrorBanner(msg, k) == [level |-> "error", msg |-> msg, sheet |-> k]
SuccessBanner(n) == [level |-> "success", msg |-> "Added new rows", sheet |-> n]

Failed(msg, k) ==
    [status |-> "failed", banners |-> <<ErrorBanner(msg, k)>>,
     download |-> FALSE, updated |-> <<>>]

\* Steps 5 to 8, given what Step 4 gave.
AfterStep4(kpi, month_label, step4) ==
    IF step4.error # "" THEN Failed(step4.error, step4.sheet)
    ELSE [status   |-> "success",
          banners  |-> <<SuccessBanner(Len(step4.merged))>>,
          download |-> TRUE,
          updated  |-> AppendAndSort(kpi, AppendRows(kpi, step4.merged, month_label))]

\* main(), from the two uploads to the banner and the download button.
CockpitMain(kpi, wbname) ==
    IF LastDatedRow(kpi) = 0
    THEN Failed("IndexError: single positional indexer is out-of-bounds", 0)
    ELSE AfterStep4(kpi, AddMonth(LastDate(kpi[LastDatedRow(kpi)].Date)),
                    ParsedWorkbooks[wbname])

InitCockpit ==
    /\ cpc = "awaiting"
    /\ kpi_in \in KpiTables
    /\ wb_in \in DOMAIN RawWorkbooks
    /\ c_out = [status |-> "none", banners |-> <<>>, download |-> FALSE, updated |-> <<>>]

IdleCockpit ==
    /\ cpc = "idle"
    /\ kpi_in = <<>>
    /\ wb_in = "complete"
    /\ c_out = [status |-> "none", banners |-> <<>>, download |-> FALSE, updated |-> <<>>]

\* if raw_file and kpi_file: try: ... except Exception as e: st.error(...)
CockpitRun ==
    /\ cpc = "awaiting"
    /\ c_out' = CockpitMain(kpi_in, wb_in)
    /\ cpc' = c_out'.status
    /\ UNCHANGED <<kpi_in, wb_in, varsAging, varsNorm, varsParse, varsToxic, varsStability>>

(***************************************************************************)
(* ToxicDashboard.py: worksheets and dates                                 *)
(***************************************************************************)

\* A cell that holds a datetime.
DtCell(y, m, d) == [kind |-> "dt", text |-> <<y, m, d>>]

\* val not in (None, "")
NonEmpty(v) == v.kind # "none" /\ v # StrCell(<<>>)

\* ws.max_row and ws.max_column: the largest row and column of a cell that
\* exists in the sheet, 1 for a sheet without cells.
max_row(ws) ==
    IF DOMAIN ws = {} THEN 1
    ELSE CHOOSE r \in {p[1] : p \in DOMAIN ws} : \A p \in DOMAIN ws : p[1] <= r

max_column(ws) ==
    IF DOMAIN ws = {} THEN 1
    ELSE CHOOSE c \in {p[2] : p \in DOMAIN ws} : \A p \in DOMAIN ws : p[2] <= c

\* Mutant: the last row of the sheet, filled or not.
get_last_filled_row_MaxRow(ws) == max_row(ws)

\* get_last_filled_row(ws): the first row from the bottom with a cell that
\* is neither None nor "", 1 when there is none.
get_last_filled_row(ws) ==
    LET filled == {r \in 1..max_row(ws) :
                      \E c \in 1..max_column(ws) : NonEmpty(CellValue(ws, r, c))}
    IN  IF filled = {} THEN 1 ELSE CHOOSE r \in filled : \A q \in filled : q <= r

\* add_one_month(dt): the first day of the next month.
add_one_month(dt) ==
    IF dt[2] = MonthsPerYear THEN <<dt[1] + 1, 1, 1>> ELSE <<dt[1], dt[2] + 1, 1>>

(***************************************************************************)
(* ToxicDashboard.py: datetime.strptime                                    *)
(***************************************************************************)

DigitChars == Chars("0123456789")

DigitValue(ch) == (CHOOSE i \in DOMAIN DigitChars : DigitChars[i] = ch) - 1

AllDigits(t) == t # <<>> /\ \A i \in DOMAIN t : t[i] \in Digits

RECURSIVE NumberOf(_)
NumberOf(t) ==
    IF t = <<>> THEN 0
    ELSE 10 * NumberOf(SubSeq(t, 1, Len(t) - 1)) + DigitValue(t[Len(t)])

\* The parts of a text between the occurrences of a separator.
RECURSIVE Parts(_, _)
Parts(t, sep) ==
    IF \A i \in DOMAIN t : t[i] # sep THEN <<t>>
    ELSE LET i == CHOOSE k \in DOMAIN t : t[k] = sep /\ \A j \in 1..(k - 1) : t[j] # sep
         IN  <<SubSeq(t, 1, i - 1)>> \o Parts(SubSeq(t, i + 1, Len(t)), sep)

MonthAbbr ==
    << Chars("jan"), Chars("feb"), Chars("mar"), Chars("apr"), Chars("may"),
       Chars("jun"), Chars("jul"), Chars("aug"), Chars("sep"), Chars("oct"),
       Chars("nov"), Chars("dec") >>

\* The value of one directive on one part of the text, -1 for no match:
\* %d is 1..31 in one or two digits (or a space and a digit), %m is 1..12
\* in one or two digits, %b a month abbreviation in any letter case, %y two
\* digits (00..68 for 2000..2068, 69..99 for 1969..1999), %Y four digits.
Directive(d, part) ==
    CASE d = "d" ->
            IF AllDigits(part) /\ Len(part) <= 2 /\ NumberOf(part) \in 1..31
            THEN NumberOf(part)
            ELSE IF Len(part) = 2 /\ part[1] = " " /\ part[2] \in Digits \ {"0"}
            THEN DigitValue(part[2])
            ELSE -1
      [] d = "m" ->
            IF AllDigits(part) /\ Len(part) <= 2 /\ NumberOf(part) \in 1..12
            THEN NumberOf(part) ELSE -1
      [] d = "b" ->
            IF \E k \in DOMAIN MonthAbbr : MonthAbbr[k] = Lower(part)
            THEN CHOOSE k \in DOMAIN MonthAbbr : MonthAbbr[k] = Lower(part)
            ELSE -1
      [] d = "y" ->
            IF AllDigits(part) /\ Len(part) = 2
            THEN (IF NumberOf(part) <= 68 THEN 2000 ELSE 1900) + NumberOf(part)
            ELSE -1
      [] d = "Y" ->
            IF AllDigits(part) /\ Len(part) = 4 THEN NumberOf(part) ELSE -1

IsLeap(y) == (y % 4 = 0 /\ y % 100 # 0) \/ y % 400 = 0

DaysInMonth(y, m) ==
    IF m = 2 THEN (IF IsLeap(y) THEN 29 ELSE 28)
    ELSE IF m \in {4, 6, 9, 11} THEN 30 ELSE 31

\* datetime(y, m, d), <<>> for the ValueError.
MakeDate(y, m, d) ==
    IF y >= 1 /\ m \in 1..12 /\ d >= 1 /\ d <= DaysInMonth(y, m) THEN <<y, m, d>> ELSE <<>>

\* A format of three directives with one separator; at[1], at[2], at[3] are
\* the places of the year, the month and the day among the parts.
Format(sep, dirs, at) == [sep |-> sep, dirs |-> dirs, at |-> at]

\* ("%d-%b-%y", "%d-%b-%Y", "%d/%m/%Y", "%m/%d/%Y", "%Y-%m-%d")
DateFormats ==
    << Format("-", <<"d", "b", "y">>, <<3, 2, 1>>),
       Format("-", <<"d", "b", "Y">>, <<3, 2, 1>>),
       Format("/", <<"d", "m", "Y">>, <<3, 2, 1>>),
       Format("/", <<"m", "d", "Y">>, <<3, 1, 2>>),
       Format("-", <<"Y", "m", "d">>, <<1, 2, 3>>) >>

FieldsToDate(fmt, vals) ==
    IF \E k \in DOMAIN vals : vals[k] = -1 THEN <<>>
    ELSE MakeDate(vals[fmt.at[1]], vals[fmt.at[2]], vals[fmt.at[3]])

PartsToDate(fmt, parts) ==
    IF Len(parts) # 3 THEN <<>>
    ELSE FieldsToDate(fmt, [k \in 1..3 |-> Directive(fmt.dirs[k], parts[k])])

\* datetime.strptime(s, fmt): the date, <<>> for the ValueError.
strptime(s, fmt) == PartsToDate(fmt, Parts(s, fmt.sep))

\* for fmt in (...): try: return datetime.strptime(s, fmt) -- the date of
\* the first format that fits, <<>> when none fits.
ParseText(s) ==
    IF \A k \in DOMAIN DateFormats : strptime(s, DateFormats[k]) = <<>> THEN <<>>
    ELSE strptime(s, DateFormats[CHOOSE k \in DOMAIN DateFormats :
                        /\ strptime(s, DateFormats[k]) # <<>>
                        /\ \A j \in 1..(k - 1) : strptime(s, DateFormats[j]) = <<>>])

(***************************************************************************)
(* ToxicDashboard.py: main                                                 *)
(***************************************************************************)

HeaderSearchStop == 11

\* str(c.value).strip().lower() if c.value else "": the text of a datetime
\* ('2025-09-15 00:00:00') is kept as one token.
HeaderKey(v) ==
    IF v.kind = "str" THEN Lower(Strip(v.text))
    ELSE IF v.kind = "dt" THEN <<"datetime">>
    ELSE <<>>

RowKeys(ws, r) == {HeaderKey(CellValue(ws, r, c)) : c \in 1..max_column(ws)}

\* for r in range(1, 11): the first row with a 'file' and a 'date' cell,
\* 0 for None.
header_row_idx(ws) ==
    LET rows == {r \in 1..(HeaderSearchStop - 1) :
                    Chars("file") \in RowKeys(ws, r) /\ Chars("date") \in RowKeys(ws, r)}
    IN  IF rows = {} THEN 0 ELSE CHOOSE r \in rows : \A q \in rows : r <= q

\* header_map.get(name): the last column of the header row with that key,
\* 0 for None.
HeaderCol(ws, hr, name) ==
    LET cols == {c \in 1..max_column(ws) : hr # 0 /\ HeaderKey(CellValue(ws, hr, c)) = name}
    IN  IF cols = {} THEN 0 ELSE CHOOSE c \in cols : \A q \in cols : q <= c

\* The date a cell of the search column gives: a datetime as it is, a text
\* by the formats, <<>> for an empty cell and for a text that fits none.
BaseOf(v) ==
    IF ~NonEmpty(v) THEN <<>>
    ELSE IF v.kind = "dt" THEN v.text
    ELSE ParseText(Strip(v.text))

\* Lines 98-129: from last_row_idx up to row 2, the first cell of the File
\* column (else the Date column) that gives a date; datetime.now() if none.
base_date(ws, file_col, date_col, last_row_idx, now) ==
    LET search_col == IF file_col # 0 THEN file_col ELSE date_col
        rows == {r \in 2..last_row_idx :
                    search_col # 0 /\ BaseOf(CellValue(ws, r, search_col)) # <<>>}
    IN  IF rows = {} THEN now
        ELSE BaseOf(CellValue(ws, CHOOSE r \in rows : \A q \in rows : q <= r, search_col))

\* The source rows that are copied: from row 2 to ws_new.max_row, those
\* with a cell that is neither None nor "".
CopiedRows(src) ==
    {r \in 2..max_row(src) :
        \E c \in 1..max_column(src) : NonEmpty(CellValue(src, r, c))}

\* The n-th copied source row.
NthCopied(src, n) ==
    CHOOSE r \in CopiedRows(src) : Cardinality({q \in CopiedRows(src) : q < r}) = n - 1

\* Mutant: the File and Date cells keep what the source row held.
WrittenCell_KeepSource(src, r, c, file_col, date_col, new_month_date) ==
    CellValue(src, r, c)

\* What the copy leaves in column c of the target row of source row r: the
\* source value, then new_month_date in the File and the Date column.
WrittenCell(src, r, c, file_col, date_col, new_month_date) ==
    IF c \in {file_col, date_col}
    THEN DtCell(new_month_date[1], new_month_date[2], new_month_date[3])
    ELSE CellValue(src, r, c)

\* Lines 149-186: the destination sheet after the copy loop.
CopyLoop(ws, src, last_row, file_col, date_col, new_month_date) ==
    LET cols  == (1..max_column(src)) \cup ({file_col, date_col} \ {0})
        fresh == {<<last_row + n, c>> : n \in 1..Cardinality(CopiedRows(src)), c \in cols}
    IN  [p \in DOMAIN ws \cup fresh |->
            IF p \in fresh
            THEN WrittenCell(src, NthCopied(src, p[1] - last_row), p[2],
                             file_col, date_col, new_month_date)
            ELSE ws[p]]

ToxicFailed(msg) ==
    [status |-> "failed", banners |-> <<[level |-> "error", msg |-> msg]>>,
     download |-> FALSE, saved |-> <<>>, next |-> <<>>]

ToxicSaved(ws, new_month_date) ==
    [status |-> "success",
     banners |-> <<[level |-> "success", msg |-> "Data pasted successfully"]>>,
     download |-> TRUE, saved |-> ws, next |-> new_month_date]

\* Lines 149-194, new_month_date being computed.
CopyAndSave(ws, src, last_row, file_col, date_col, new_month_date) ==
    ToxicSaved(CopyLoop(ws, src, last_row, file_col, date_col, new_month_date),
               new_month_date)

\* Lines 97-131, the header columns being found: new_month_date is computed
\* once, from the last date of the sheet.
DetectAndCopy(ws, src, last_row, file_col, date_col, now) ==
    CopyAndSave(ws, src, last_row, file_col, date_col,
                add_one_month(base_date(ws, file_col, date_col, last_row, now)))

\* Lines 46-194 on the sheet 'Overall database', hr being header_row_idx.
Transplant(ws, src, hr, now) ==
    DetectAndCopy(ws, src, get_last_filled_row(ws),
                  HeaderCol(ws, hr, Chars("file")), HeaderCol(ws, hr, Chars("date")), now)

\* main(): wb_manual["Overall database"] raises KeyError without the sheet.
ToxicMain(manual, src, now) ==
    IF ~manual.has_sheet
    THEN ToxicFailed("KeyError: Worksheet Overall database does not exist.")
    ELSE Transplant(manual.cells, src, header_row_idx(manual.cells), now)

(***************************************************************************)
(* ToxicDashboard.py: the inputs and the run                               *)
(***************************************************************************)

\* datetime.now(), as <<year, month, day>>.
ToxicNow == <<2026, 11, 6>>

\* A sheet from its rows, each row a function from columns to cells.
SheetOf(rows) ==
    [p \in UNION {{<<r, c>> : c \in DOMAIN rows[r]} : r \in DOMAIN rows} |-> rows[p[1]][p[2]]]

HeaderRow == <<StrCell(Chars("Name")), StrCell(Chars(" File")), StrCell(Chars("DATE"))>>
PlainRow  == <<StrCell(Chars("Name")), StrCell(Chars("Month")), StrCell(Chars("Day"))>>

\* A filled destination row whose File and Date cells hold v.
BodyRow(v) == <<StrCell(Chars("x")), v, v>>

\* A row of cells that exist but hold nothing.
FormattedRow == <<NoCell, StrCell(<<>>), NoCell>>

\* The rows of the new data file below its header, by kind.
SourceRow(kind) ==
    CASE kind = "none"  -> <<NoCell, NoCell, NoCell>>
      [] kind = "empty" -> <<StrCell(<<>>)>>
      [] kind = "a"     -> <<StrCell(Chars("a")), DtCell(2020, 1, 1), StrCell(Chars("old"))>>
      [] kind = "b"     -> (3 :> StrCell(Chars("b")))

SourceKinds == {"none", "empty", "a", "b"}

SourceSheet(kinds) == SheetOf(<<HeaderRow>> \o [k \in DOMAIN kinds |-> SourceRow(kinds[k])])

\* What the File column of the destination may hold.
FileValues ==
    { DtCell(2025, 9, 15), DtCell(2025, 12, 1), StrCell(Chars("1-Oct-25")),
      StrCell(Chars("31/12/2025")), StrCell(Chars("n/a")), NoCell }

DestSheet(header, body, trailing) ==
    SheetOf(<<IF header THEN HeaderRow ELSE PlainRow>>
                \o [k \in DOMAIN body |-> BodyRow(body[k])]
                \o [k \in 1..trailing |-> FormattedRow])

MaxSrcRows  == 5
MaxDestRows == 2
MaxTrailing == 2

SeqsUpTo(set, n) == UNION {[1..k -> set] : k \in 0..n}

\* Many source sheets on a few destinations: a sheet with one dated row,
\* the same with formatted rows below it, and a sheet without cells.
ManySources ==
    /\ t_new \in {SourceSheet(kinds) : kinds \in SeqsUpTo(SourceKinds, MaxSrcRows)}
    /\ t_manual \in
          { [has_sheet |-> TRUE, cells |-> DestSheet(TRUE, <<DtCell(2025, 9, 15)>>, 0)],
            [has_sheet |-> TRUE,
             cells |-> DestSheet(TRUE, <<DtCell(2025, 9, 15)>>, MaxTrailing)],
            [has_sheet |-> TRUE, cells |-> <<>>],
            [has_sheet |-> FALSE, cells |-> <<>>] }

\* Many destination sheets on a few sources.
ManyDestinations ==
    /\ t_new \in {SourceSheet(<<"a", "b">>), SourceSheet(<<"empty", "b", "none">>)}
    /\ t_manual \in
          { [has_sheet |-> TRUE, cells |-> DestSheet(header, body, trailing)] :
                header \in BOOLEAN, body \in SeqsUpTo(FileValues, MaxDestRows),
                trailing \in 0..(MaxTrailing - 1) }

NoToxicOutput ==
    [status |-> "none", banners |-> <<>>, download |-> FALSE, saved |-> <<>>,
     next |-> <<>>]

InitToxic ==
    /\ tpc = "awaiting"
    /\ ManySources \/ ManyDestinations
    /\ t_out = NoToxicOutput

IdleToxic ==
    /\ tpc = "idle"
    /\ t_manual = [has_sheet |-> FALSE, cells |-> <<>>]
    /\ t_new = <<>>
    /\ t_out = NoToxicOutput

\* if manual_file and new_file: try: ... except Exception as e: st.error(...)
ToxicRun ==
    /\ tpc = "awaiting"
    /\ t_out' = ToxicMain(t_manual, t_new, ToxicNow)
    /\ tpc' = t_out'.status
    /\ UNCHANGED <<t_manual, t_new, varsAging, varsNorm, varsParse, varsCockpit,
                   varsStability>>

(***************************************************************************)
(* ITStabilityGraph.py                                                     *)
(***************************************************************************)

\* cols_to_extract = [0, 1, 2, 5, 14, 7, 8, 9, 11]
cols_to_extract == <<0, 1, 2, 5, 14, 7, 8, 9, 11>>

\* The number of columns a frame needs for df.iloc[:, cols_to_extract].
ColumnsNeeded ==
    1 + CHOOSE c \in {cols_to_extract[k] : k \in DOMAIN cols_to_extract} :
            \A k \in DOMAIN cols_to_extract : cols_to_extract[k] <= c

\* STEP 1 on one source file: pd.read_excel raises ValueError without the
\* sheet 'Page 1', df.iloc raises IndexError on a frame with too few columns.
ExtractError(file) ==
    IF ~file.has_page THEN "ValueError: Worksheet named 'Page 1' not found"
    ELSE IF file.ncols < ColumnsNeeded
    THEN "IndexError: positional indexers are out-of-bounds"
    ELSE ""

RECURSIVE RowsOfSources(_)
RowsOfSources(files) ==
    IF files = <<>> THEN 0 ELSE files[1].rows + RowsOfSources(Tail(files))

StabilityBanner(level, msg) == [level |-> level, msg |-> msg]

\* except Exception as e: st.error(...), after the banners shown so far.
StabilityFailed(shown, msg) ==
    [status |-> "failed", banners |-> Append(shown, StabilityBanner("error", msg)),
     download |-> FALSE, rows |-> 0]

\* STEPS 2 to 5, after st.success("Extracted data from ... files"):
\* pd.read_excel of the target raises ValueError without the sheet
\* 'IT Stability'; else the table is written, st.success and the download.
AfterExtract(files, target, shown) ==
    IF ~target.has_sheet
    THEN StabilityFailed(shown, "ValueError: Worksheet named 'IT Stability' not found")
    ELSE [status |-> "success",
          banners |-> Append(shown, StabilityBanner("success", "Appended rows successfully")),
          download |-> TRUE, rows |-> target.rows + RowsOfSources(files)]

\* main() of ITStabilityGraph.py, from the uploads to the last banner.
StabilityMain(files, target) ==
    IF \E k \in DOMAIN files : ExtractError(files[k]) # ""
    THEN StabilityFailed(<<>>,
            ExtractError(files[CHOOSE k \in DOMAIN files :
                                  /\ ExtractError(files[k]) # ""
                                  /\ \A j \in 1..(k - 1) : ExtractError(files[j]) = ""]))
    ELSE AfterExtract(files, target,
                      <<StabilityBanner("success", "Extracted data from files")>>)

MaxSources  == 2
MaxFileRows == 2

SourceFiles ==
    [has_page : BOOLEAN, ncols : {ColumnsNeeded - 1, ColumnsNeeded}, rows : 0..MaxFileRows]

NoStabilityOutput ==
    [status |-> "none", banners |-> <<>>, download |-> FALSE, rows |-> 0]

\* if source_files and target_file: at least one source file is uploaded.
InitStability ==
    /\ spc = "awaiting"
    /\ s_sources \in UNION {[1..n -> SourceFiles] : n \in 1..MaxSources}
    /\ s_target \in [has_sheet : BOOLEAN, rows : 0..MaxFileRows]
    /\ s_out = NoStabilityOutput

\* try: ... except Exception as e: st.error(...)
StabilityRun ==
    /\ spc = "awaiting"
    /\ s_out' = StabilityMain(s_sources, s_target)
    /\ spc' = s_out'.status
    /\ UNCHANGED <<s_sources, s_target, varsAging, varsNorm, varsParse, varsCockpit,
                   varsToxic>>

IdleStability ==
    /\ spc = "idle"
    /\ s_sources = <<>>
    /\ s_target = [has_sheet |-> FALSE, rows |-> 0]
    /\ s_out = NoStabilityOutput

(***************************************************************************)
(* Specifications                                                          *)
(***************************************************************************)

\* The 'IT Stability Aging Graph' page: AgingTable.main.
AgingInit == InitAging /\ IdleNorm /\ IdleParse /\ IdleCockpit /\ IdleToxic /\ IdleStability

NextAging == AgingRun

SpecAging == AgingInit /\ [][NextAging]_vars

\* normalize_oe called on its own.
NormInit == InitNorm /\ IdleAging /\ IdleParse /\ IdleCockpit /\ IdleToxic /\ IdleStability

NextNorm == NormalizeCall

SpecNorm == NormInit /\ [][NextNorm]_vars

\* parse_sheet called on its own.
ParseInit == InitParse /\ IdleAging /\ IdleNorm /\ IdleCockpit /\ IdleToxic /\ IdleStability

NextParse == ParseCall

SpecParse == ParseInit /\ [][NextParse]_vars

\* The 'IT Cockpit' page: ITDashboard.main.
CockpitInit == InitCockpit /\ IdleAging /\ IdleNorm /\ IdleParse /\ IdleToxic /\ IdleStability

NextCockpit == CockpitRun

SpecCockpit == CockpitInit /\ [][NextCockpit]_vars

\* The 'Toxic Data Appender' page: ToxicDashboard.main.
ToxicInit ==
    InitToxic /\ IdleAging /\ IdleNorm /\ IdleParse /\ IdleCockpit /\ IdleStability

NextToxic == ToxicRun

SpecToxic == ToxicInit /\ [][NextToxic]_vars

\* The 'IT Stability P1-P4 Graph' page: ITStabilityGraph.main.
StabilityInit ==
    InitStability /\ IdleAging /\ IdleNorm /\ IdleParse /\ IdleCockpit /\ IdleToxic

NextStability == StabilityRun

SpecStability == StabilityInit /\ [][NextStability]_vars

(***************************************************************************)
(* What the properties speak of, stated without the code's operators       *)
(***************************************************************************)

\* The text before the first comma.
BeforeComma(t) ==
    LET commas == {i \in DOMAIN t : t[i] = ","}
    IN  IF commas = {} THEN t
        ELSE SubSeq(t, 1, (CHOOSE i \in commas : \A j \in commas : i <= j) - 1)

\* k occurs in t, letter case ignored.
OccursIgnoringCase(t, k) ==
    \E i \in 0..(Len(t) - Len(k)) :
        \A j \in 1..Len(k) : LowerChar(t[i + j]) = LowerChar(k[j])

\* The entries of RAW_TO_OE_MAP whose substring occurs before the first comma.
MatchingEntries(cell) ==
    IF cell.kind = "nan" THEN {}
    ELSE {i \in DOMAIN RAW_TO_OE_MAP :
            OccursIgnoringCase(BeforeComma(cell.text), RAW_TO_OE_MAP[i][1])}

\* The code of the first matching entry in list order, None without one.
FirstMatchCode(cell) ==
    LET m == MatchingEntries(cell)
    IN  IF m = {} THEN None
        ELSE RAW_TO_OE_MAP[CHOOSE i \in m : \A j \in m : i <= j][2]

FirstMatchCodeOf == [cell \in OeCells |-> FirstMatchCode(cell)]

\* The elapsed days of an incident: to its resolution, or to now while open.
Elapsed(row, now) ==
    (IF row.Resolved.kind = "date" THEN row.Resolved.day ELSE now) - row.Created.day

\* Per row of the raw table: the OE code of its first matching entry, and
\* the duration the code gives it.
RowCodes == [j \in DOMAIN raw |-> FirstMatchCodeOf[raw[j].OE]]
RowDays  == [j \in DOMAIN raw |-> Days(raw[j], today)]

\* The rows of one OE (by codes) that are counted under a metric (by days).
CountedRows(codes, days, oe, metric) ==
    {j \in DOMAIN codes : /\ codes[j] = oe
                          /\ ~days[j].nan
                          /\ InBucket(metric, days[j].days)}

\* The rows of any matched OE that are counted under a metric.
MatchedRows(codes, days, metric) ==
    {j \in DOMAIN codes : /\ codes[j] # None
                          /\ ~days[j].nan
                          /\ InBucket(metric, days[j].days)}

\* The value the period block holds for an (OE, metric) pair.
BlockValue(oe, metric) ==
    new_block[CHOOSE k \in DOMAIN new_block :
                 new_block[k].OE = oe /\ new_block[k].Metric = metric].Value

RECURSIVE SumOverOEs(_, _)
SumOverOEs(metric, i) ==
    IF i > Len(OE_ORDER) THEN 0
    ELSE BlockValue(OE_ORDER[i], metric) + SumOverOEs(metric, i + 1)

MonthIndex(d) == MonthsPerYear * d.year + (d.month - 1)

(***************************************************************************)
(* Properties                                                              *)
(***************************************************************************)

\* C1: whatever the raw table holds, the period block has exactly
\* |OE_ORDER| x |METRICS| = 27 rows, holds every (OE, metric) pair exactly
\* once, all rows carry the month after the last date, and a pair with no
\* counted row in the raw source has the value 0.
C1_CompleteBlock ==
    apc = "done" =>
        /\ Len(new_block) = Len(OE_ORDER) * Len(METRICS)
        /\ Len(new_block) = 27
        /\ \A o \in DOMAIN OE_ORDER, m \in DOMAIN METRICS :
              Cardinality({k \in DOMAIN new_block :
                              /\ new_block[k].OE = OE_ORDER[o]
                              /\ new_block[k].Metric = METRICS[m]}) = 1
        /\ \A k \in DOMAIN new_block :
              /\ new_block[k].Date.month \in 1..MonthsPerYear
              /\ MonthIndex(new_block[k].Date) = MonthIndex(last_date) + 1
        /\ LET codes == RowCodes
               days  == RowDays
           IN  \A o \in DOMAIN OE_ORDER, m \in DOMAIN METRICS :
                  CountedRows(codes, days, OE_ORDER[o], METRICS[m]) = {}
                      => BlockValue(OE_ORDER[o], METRICS[m]) = 0

\* C1 witness: a run over a non-empty table in which no row matches an OE.
C1_Witness ==
    /\ apc = "done"
    /\ raw # <<>>
    /\ \A j \in DOMAIN raw : FirstMatchCodeOf[raw[j].OE] = None

\* The scenario of C2: the rows of OE MY are four incidents with 10, 35, 60
\* and 95 elapsed days.
C2_Scenario ==
    LET my == {j \in DOMAIN raw : FirstMatchCodeOf[raw[j].OE] = "MY"}
    IN  /\ Cardinality(my) = 4
        /\ \A j \in my : /\ raw[j].Created.kind = "date"
                         /\ raw[j].Resolved.kind \in {"date", "nan"}
        /\ {Elapsed(raw[j], today) : j \in my} = {10, 35, 60, 95}

\* C2 as stated: MY rows with elapsed days {10, 35, 60, 95} give the counts
\* total = 2, 31-90 = 1, over 90 = 1.
C2_AsStated ==
    (apc = "done" /\ C2_Scenario) =>
        /\ BlockValue("MY", METRICS[1]) = 2
        /\ BlockValue("MY", METRICS[2]) = 1
        /\ BlockValue("MY", METRICS[3]) = 1

\* C2 amended: MY rows with elapsed days {10, 35, 60, 95} give the counts
\* total = 3 (35, 60, 95), 31-90 = 2 (35, 60), over 90 = 1 (95).
C2_Amended ==
    (apc = "done" /\ C2_Scenario) =>
        /\ BlockValue("MY", METRICS[1]) = 3
        /\ BlockValue("MY", METRICS[2]) = 2
        /\ BlockValue("MY", METRICS[3]) = 1

\* C2 witness: a finished run over a table of the scenario.
C2_Witness == apc = "done" /\ C2_Scenario

\* C3: for every OE the total bucket counts at least as many rows as the
\* 31-90 bucket.
C3_TotalCoversMid ==
    apc = "done" =>
        \A o \in DOMAIN OE_ORDER :
            BlockValue(OE_ORDER[o], METRICS[1]) >= BlockValue(OE_ORDER[o], METRICS[2])

\* C3 witness: an OE with rows in the 31-90 bucket and more in the total.
C3_Witness ==
    /\ apc = "done"
    /\ \E o \in DOMAIN OE_ORDER :
          /\ BlockValue(OE_ORDER[o], METRICS[2]) >= 1
          /\ BlockValue(OE_ORDER[o], METRICS[1]) > BlockValue(OE_ORDER[o], METRICS[2])

\* C4: the result of normalize_oe on a text in any letter case and with any
\* leading or trailing whitespace is the code of the first entry of
\* RAW_TO_OE_MAP, in list order, whose substring occurs, case ignored, before
\* the first comma of the text, and None when there is none or no text.
C4_FirstMatchAnyCase ==
    npc = "returned" => oe_code = FirstMatchCode(norm_base)

\* C4 witness: a comma list in another case or padding resolved to its
\* first entity.
C4_Witness ==
    /\ npc = "returned"
    /\ norm_arg # norm_base
    /\ Contains(norm_base.text, <<",">>)
    /\ oe_code = "TH"

\* C5: a row whose OE matches no entry is counted nowhere: every value of
\* the block is the number of rows of that OE in the bucket's range, and a
\* metric's values sum to the number of matched rows in that range.
C5_UnmatchedExcluded ==
    apc = "done" =>
        LET codes == RowCodes
            days  == RowDays
        IN  \A m \in DOMAIN METRICS :
                /\ \A o \in DOMAIN OE_ORDER :
                      BlockValue(OE_ORDER[o], METRICS[m])
                          = Cardinality(CountedRows(codes, days, OE_ORDER[o], METRICS[m]))
                /\ SumOverOEs(METRICS[m], 1)
                      = Cardinality(MatchedRows(codes, days, METRICS[m]))

\* C5 witness: an unmatched row old enough for every bucket beside a
\* counted one.
C5_Witness ==
    /\ apc = "done"
    /\ \E j \in DOMAIN raw :
          /\ raw[j].OE.kind = "str"
          /\ FirstMatchCodeOf[raw[j].OE] = None
          /\ raw[j].Created.kind = "date"
          /\ Elapsed(raw[j], today) > 90
    /\ SumOverOEs(METRICS[3], 1) >= 1

\* The raw table without the rows whose Created or Resolved is no date.
WithoutUnresolvable(table) ==
    SelectSeq(table, LAMBDA r : r.Created.kind # "text" /\ r.Resolved.kind # "text")

\* C6: a row whose Created or Resolved cell cannot be resolved to a date is
\* counted in no bucket: the block is the one of the table without it.
C6_UnresolvableExcluded ==
    apc = "done" =>
        new_block = append_next_month_with_counts(
                        last_date, WithoutUnresolvable(raw), today)

\* The columns header_map has a key for, and the header of a column.
MappedCols(hm) == {hm[k][1] : k \in DOMAIN hm}
HeaderOf(hm, c) == hm[CHOOSE k \in DOMAIN hm : hm[k][1] = c][2]

\* The wanted header i occurs, case ignored, in the string cell (r, c); an
\* en-dash of the cell counts as a hyphen.
HeaderOccurs(sheet, wanted, r, c, i) ==
    LET v == CellValue(sheet, r, c)
    IN  /\ v.kind = "str"
        /\ OccursIgnoringCase(ReplaceChar(v.text, EN_DASH, "-"), wanted[i])

\* The (row, header) pairs of the scanned region that match in column c.
ColumnMatches(sheet, wanted, c) ==
    {m \in (1..29) \X DOMAIN wanted :
        c \in 1..24 /\ HeaderOccurs(sheet, wanted, m[1], c, m[2])}

\* The last pair in scan order: the latest row, then the latest header.
LastMatch(ms) ==
    CHOOSE m \in ms : \A n \in ms : n[1] < m[1] \/ (n[1] = m[1] /\ n[2] <= m[2])

\* C7: a column is mapped exactly if a cell of it in rows 1..29, columns
\* 1..24 contains a wanted header, and it is mapped to the header of the
\* last match in scan order (latest row, then latest header of the list).
C7_LastMatchWins ==
    ppc \in {"returned", "raised"} =>
        /\ \A k1, k2 \in DOMAIN p_out.header_map :
              p_out.header_map[k1][1] = p_out.header_map[k2][1] => k1 = k2
        /\ \A c \in 1..26 :
              LET ms == ColumnMatches(p_ws, p_wanted, c)
              IN  /\ c \in MappedCols(p_out.header_map) <=> ms # {}
                  /\ ms # {} => HeaderOf(p_out.header_map, c) = p_wanted[LastMatch(ms)[2]]
        /\ MappedCols(p_out.header_map) \subseteq 1..26

\* C7 witness: a column with matches in two rows for different headers,
\* the later cell matching two wanted headers.
C7_Witness ==
    /\ ppc = "returned"
    /\ \E c \in MappedCols(p_out.header_map) :
          LET ms == ColumnMatches(p_ws, p_wanted, c)
          IN  \E m1, m2, m3 \in ms :
                 /\ m1[1] < m2[1]
                 /\ m3[1] = m2[1] /\ m3[2] < m2[2]
                 /\ p_wanted[m1[2]] # HeaderOf(p_out.header_map, c)
                 /\ p_wanted[m2[2]] = HeaderOf(p_out.header_map, c)

\* The text with every en-dash and em-dash as a hyphen and every
\* non-breaking space as a space.
Unified(t) ==
    ReplaceChar(ReplaceChar(ReplaceChar(t, EN_DASH, "-"), EM_DASH, "-"), NBSP, " ")

\* C8: a header cell of the scanned region that differs from a wanted header
\* only by en-dashes, em-dashes and non-breaking spaces is matched: its
\* column is mapped.
C8_LookAlikesMatched ==
    ppc \in {"returned", "raised"} =>
        \A r \in 1..29, c \in 1..24, i \in DOMAIN p_wanted :
            LET v == CellValue(p_ws, r, c)
            IN  (v.kind = "str" /\ Unified(v.text) = p_wanted[i])
                    => c \in MappedCols(p_out.header_map)

(***************************************************************************)
(* IT Cockpit run                                                          *)
(***************************************************************************)

\* No cell of rows 1..29, columns 1..24 of the sheet contains a wanted header.
NoWantedHeader(sheet, wanted) ==
    \A c \in 1..24 : ColumnMatches(sheet, wanted, c) = {}

\* Per workbook: the sheets without any wanted header, the sheets for
\* which parse_sheet raises, and the sheets parsed to no row at all.
HeaderlessSheets ==
    [w \in DOMAIN RawWorkbooks |->
        {k \in DOMAIN sheet_kpi_map :
            NoWantedHeader(RawWorkbooks[w][k], sheet_kpi_map[k].kpis)}]

RaisingSheets ==
    [w \in DOMAIN RawWorkbooks |->
        {k \in DOMAIN sheet_kpi_map :
            parse_sheet(RawWorkbooks[w][k], sheet_kpi_map[k].kpis).raised}]

RowlessSheets ==
    [w \in DOMAIN RawWorkbooks |->
        {k \in DOMAIN sheet_kpi_map :
            parse_sheet(RawWorkbooks[w][k], sheet_kpi_map[k].kpis).results = <<>>}]

HeaderError == "ValueError: Could not find KPI headers in sheet"

\* C9: when a sheet of the workbook has no wanted header in its scanned
\* region, parse_sheet raises for it, and the finished run is failed, shows
\* exactly one banner, an error, and offers no download; when nothing
\* before that sheet went wrong (KPI2 has a date, the earlier sheets have
\* headers and rows), the error shown is the header error of that sheet.
C9_HeaderlessSheetFailsRun ==
    cpc \in {"success", "failed"} =>
        \A k \in HeaderlessSheets[wb_in] :
            /\ k \in RaisingSheets[wb_in]
            /\ cpc = "failed"
            /\ c_out.status = "failed"
            /\ Len(c_out.banners) = 1
            /\ c_out.banners[1].level = "error"
            /\ ~c_out.download
            /\ c_out.updated = <<>>
            /\ ( /\ LastDatedRow(kpi_in) # 0
                 /\ \A j \in 1..(k - 1) :
                       j \notin HeaderlessSheets[wb_in] \cup RowlessSheets[wb_in] )
                   => c_out.banners = <<ErrorBanner(HeaderError, k)>>

\* C9 witness: a finished run on a dated KPI2 table of two rows and a
\* workbook whose first sheets are fine and a later sheet has no header.
C9_Witness ==
    /\ cpc = "failed"
    /\ Len(kpi_in) = 2
    /\ LastDatedRow(kpi_in) # 0
    /\ \E k \in HeaderlessSheets[wb_in] :
          /\ k > 1
          /\ c_out.banners = <<ErrorBanner(HeaderError, k)>>

\* The period of a Date cell: its calendar month (0 for an empty cell).
Period(cell) ==
    IF cell.kind = "nan" THEN 0 ELSE MonthsPerYear * cell.year + cell.month

\* C10: in the output of a successful append, of two rows with a period the
\* earlier row has no later period, and of two rows of one period whose OEs
\* are in custom_order the earlier row has no later OE.
C10_SortedByPeriodThenOE ==
    cpc = "success" =>
        \A i, j \in DOMAIN c_out.updated :
            LET a == c_out.updated[i]
                b == c_out.updated[j]
            IN  (i < j /\ Period(a.Date) # 0 /\ Period(b.Date) # 0) =>
                    /\ Period(a.Date) <= Period(b.Date)
                    /\ (Period(a.Date) = Period(b.Date)
                            /\ a.OE.kind = "str" /\ b.OE.kind = "str")
                          => CatCode(a.OE.text) <= CatCode(b.OE.text)

\* An existing KPI2 row as it should stand in the output: its fields as
\* they were, its OE label cleaned.
Kept(row) ==
    [Date |-> row.Date, CIM |-> row.CIM, OE |-> StrCell(clean_oe_name(row.OE)),
     data |-> <<>>]

\* C11: in the output of a successful append every row of the existing
\* KPI2 table stands with its Date and CIM ID unchanged and its OE label
\* equal to its cleaned original label, as often as it stood in the table.
C11_ExistingRowsKept ==
    cpc = "success" =>
        \A i \in DOMAIN kpi_in :
            Cardinality({j \in DOMAIN c_out.updated : c_out.updated[j] = Kept(kpi_in[i])})
                >= Cardinality({h \in DOMAIN kpi_in : Kept(kpi_in[h]) = Kept(kpi_in[i])})

(***************************************************************************)
(* Toxic run                                                               *)
(***************************************************************************)

\* The rows of a sheet that have a cell that is neither None nor "".
FilledRows(ws) == {p[1] : p \in {q \in DOMAIN ws : NonEmpty(ws[q])}}

Highest(rows) == CHOOSE r \in rows : \A q \in rows : q <= r

\* The source rows below the header with a non-empty cell, and the n-th.
NonBlankSource == {r \in FilledRows(t_new) : r >= 2}

NthNonBlank(n) ==
    CHOOSE r \in NonBlankSource : Cardinality({q \in NonBlankSource : q < r}) = n - 1

SourceWidth == Highest({p[2] : p \in DOMAIN t_new})

\* The columns of the destination headed 'File' and 'Date'.
PeriodCols ==
    LET ws == t_manual.cells
        hr == header_row_idx(ws)
    IN  {p[2] : p \in {q \in DOMAIN ws :
                          q[1] = hr /\ HeaderKey(ws[q]) \in {Chars("file"), Chars("date")}}}

\* C12: with L the last destination row that has a non-empty cell and k the
\* number of non-blank source rows below the header, a successful run
\* leaves the rows up to L as they were, holds in row L+n the cells of the
\* n-th non-blank source row (outside the period columns), and adds nothing
\* beyond row L+k: rows beyond it hold what they held before.
C12_NonBlankRowsAppended ==
    (tpc = "success" /\ FilledRows(t_manual.cells) # {}) =>
        LET ws == t_manual.cells
            L  == Highest(FilledRows(ws))
            k  == Cardinality(NonBlankSource)
        IN  /\ \A p \in DOMAIN t_out.saved :
                  (p[1] <= L \/ p[1] > L + k) => (p \in DOMAIN ws /\ t_out.saved[p] = ws[p])
            /\ \A p \in DOMAIN ws : p \in DOMAIN t_out.saved
            /\ \A n \in 1..k : \A c \in 1..SourceWidth :
                  /\ <<L + n, c>> \in DOMAIN t_out.saved
                  /\ c \notin PeriodCols
                        => t_out.saved[<<L + n, c>>] = CellValue(t_new, NthNonBlank(n), c)

\* C12 witness: a destination with formatted empty rows below its last
\* filled row and a source of five rows below the header, one of them
\* blank: four rows are appended.
C12_Witness ==
    /\ tpc = "success"
    /\ FilledRows(t_manual.cells) # {}
    /\ max_row(t_manual.cells) > Highest(FilledRows(t_manual.cells))
    /\ max_row(t_new) = 6
    /\ Cardinality(NonBlankSource) = 4
    /\ FilledRows(t_out.saved) \ FilledRows(t_manual.cells)
          = (Highest(FilledRows(t_manual.cells)) + 1)..(Highest(FilledRows(t_manual.cells)) + 4)

\* The first day of the month after a date.
FirstOfNextMonth(d) ==
    <<(MonthsPerYear * d[1] + d[2]) \div MonthsPerYear,
      ((MonthsPerYear * d[1] + d[2]) % MonthsPerYear) + 1, 1>>

\* The date a destination cell stands for, <<>> if none: a datetime, or a
\* text in one of the date formats.
KnownDate(v) ==
    IF v.kind = "dt" THEN v.text
    ELSE IF v.kind = "str" THEN ParseText(Strip(v.text))
    ELSE <<>>

\* The last known period: the date of the lowest cell of the File column,
\* below row 1, that stands for a date; today without one.
LastKnownPeriod ==
    LET ws   == t_manual.cells
        col  == HeaderCol(ws, header_row_idx(ws), Chars("file"))
        rows == {p[1] : p \in {q \in DOMAIN ws :
                                  q[1] >= 2 /\ q[2] = col /\ KnownDate(ws[q]) # <<>>}}
    IN  IF rows = {} THEN ToxicNow ELSE KnownDate(ws[<<Highest(rows), col>>])

\* C13: in a successful run the File and the Date cell of every appended
\* row hold one datetime, the first day of the month after the last known
\* period, whatever the source row held in those columns.
C13_PeriodOverwritten ==
    tpc = "success" =>
        /\ t_out.next = FirstOfNextMonth(LastKnownPeriod)
        /\ FilledRows(t_manual.cells) # {} =>
              \A n \in 1..Cardinality(NonBlankSource) : \A c \in PeriodCols :
                  t_out.saved[<<Highest(FilledRows(t_manual.cells)) + n, c>>]
                      = DtCell(t_out.next[1], t_out.next[2], t_out.next[3])

\* C13 witness: the last known period is read from a text cell, two rows
\* are appended, and a source row held another date in the File column.
C13_Witness ==
    /\ tpc = "success"
    /\ PeriodCols # {}
    /\ Cardinality(NonBlankSource) >= 2
    /\ \E r \in NonBlankSource : \E c \in PeriodCols :
          CellValue(t_new, r, c).kind = "dt"
    /\ \E p \in DOMAIN t_manual.cells :
          /\ p[1] = Highest(FilledRows(t_manual.cells))
          /\ p[2] \in PeriodCols
          /\ t_manual.cells[p].kind = "str"
          /\ KnownDate(t_manual.cells[p]) # <<>>
          /\ t_out.next = FirstOfNextMonth(KnownDate(t_manual.cells[p]))

(***************************************************************************)
(* Runs and their outcome                                                  *)
(***************************************************************************)

\* C14: a finished run ended in one outcome: it is successful exactly if no
\* error was reported, no success banner is followed by an error, and the
\* download is offered only when no error was reported.
C14_OneOutcome ==
    spc \in {"success", "failed"} =>
        /\ spc = "success" <=> \A k \in DOMAIN s_out.banners : s_out.banners[k].level # "error"
        /\ \A i, j \in DOMAIN s_out.banners :
              (i < j /\ s_out.banners[i].level = "success")
                  => s_out.banners[j].level # "error"
        /\ s_out.download => \A k \in DOMAIN s_out.banners : s_out.banners[k].level # "error"

(***************************************************************************)
(* Order of RAW_TO_OE_MAP, and the buckets as a partition                  *)
(***************************************************************************)

\* The first entry of RAW_TO_OE_MAP, in list order, that matches a cell.
FirstMatching(cell) ==
    CHOOSE i \in MatchingEntries(cell) : \A j \in MatchingEntries(cell) : i <= j

\* Entry j is more specific than entry i: its substring is longer and
\* contains the substring of i.
MoreSpecific(j, i) ==
    /\ Len(RAW_TO_OE_MAP[j][1]) > Len(RAW_TO_OE_MAP[i][1])
    /\ OccursIgnoringCase(RAW_TO_OE_MAP[j][1], RAW_TO_OE_MAP[i][1])

\* C15: when normalize_oe has returned the code of the first matching
\* entry of RAW_TO_OE_MAP, no matching entry is more specific than that
\* one: a more specific entry stands earlier in the list than a broader one.
C15_SpecificFirst ==
    (npc = "returned" /\ MatchingEntries(norm_base) # {}) =>
        /\ oe_code = RAW_TO_OE_MAP[FirstMatching(norm_base)][2]
        /\ \A j \in MatchingEntries(norm_base) :
              /\ ~MoreSpecific(j, FirstMatching(norm_base))
              /\ \A i \in DOMAIN RAW_TO_OE_MAP : MoreSpecific(j, i) => j < i

\* The rows of an OE whose day count lies in lo..hi.
RowsInRange(oe, lo, hi) ==
    {j \in DOMAIN raw : /\ RowCodes[j] = oe
                        /\ ~RowDays[j].nan
                        /\ RowDays[j].days >= lo
                        /\ RowDays[j].days <= hi}

\* The largest day count of a row of the table, 0 without one.
MaxDays ==
    LET ds == {RowDays[j].days : j \in {i \in DOMAIN raw : ~RowDays[i].nan}}
    IN  IF ds = {} THEN 0 ELSE CHOOSE d \in ds : \A e \in ds : e <= d

\* C16: for every OE the total count is the sum of the 31-90 count and the
\* >90 count, these two count the rows of 31..90 days and the rows of 91
\* days and more (no row twice), and so a row of fewer than 31 days is
\* counted nowhere.
C16_BucketsPartition ==
    apc = "done" =>
        \A o \in DOMAIN OE_ORDER :
            /\ BlockValue(OE_ORDER[o], METRICS[1])
                  = BlockValue(OE_ORDER[o], METRICS[2]) + BlockValue(OE_ORDER[o], METRICS[3])
            /\ BlockValue(OE_ORDER[o], METRICS[2])
                  = Cardinality(RowsInRange(OE_ORDER[o], 31, 90))
            /\ BlockValue(OE_ORDER[o], METRICS[3])
                  = Cardinality(RowsInRange(OE_ORDER[o], 91, MaxDays))

\* C16 witness: an OE with a row under 31 days, a row of 31..90 days and a
\* row over 90 days.
C16_Witness ==
    /\ apc = "done"
    /\ \E o \in DOMAIN OE_ORDER :
          /\ RowsInRange(OE_ORDER[o], 0, 30) # {}
          /\ BlockValue(OE_ORDER[o], METRICS[2]) >= 1
          /\ BlockValue(OE_ORDER[o], METRICS[3]) >= 1
          /\ BlockValue(OE_ORDER[o], METRICS[1]) < Cardinality(RowsInRange(OE_ORDER[o], 0, MaxDays))

=============================================================================
